---- MODULE Spec2Model ----
(***************************************************************************)
(* Autoviva: question generation (TopicGenerator, DocumentUploader, the    *)
(* gemini library) and exam assembly (QuestionSelection).                  *)
(*                                                                         *)
(* Four specifications share the module:                                   *)
(*   SpecSelection   the QuestionSelection component and its parent        *)
(*   SpecNormalizer  the two response normalizers as pure functions        *)
(*   SpecMapper      the letter -> index mapping of handleGenerateMCQs     *)
(*   Spec            the two generation handlers, the completion service   *)
(*                   and the question store                                *)
(***************************************************************************)
EXTENDS Integers, Sequences, FiniteSets, TLC

VARIABLES
  \* QuestionSelection (src/unnamed/part_001)
  questions,           \* prop: the pool, a sequence of Question records
  selectedQuestions,   \* prop: the selected questions, in selection order
  availableQuestions,  \* state: useState<Question[]>([])
  searchQuery,         \* state: useState('')
  effectPending        \* the useEffect of lines 24-33 is scheduled, not yet run

VARIABLES
  \* a normalizer applied to one response text
  responseText,        \* the text the completion service returned (tokens)
  normResult           \* what the normalizer returned or threw

VARIABLES
  \* the answer-key mapping applied to one generated question
  mcq,                 \* the question: options and correct_answer
  mapped               \* the correct_answer handed to addQuestion

VARIABLES
  \* the generation pipelines
  generator,           \* the generator the teacher's page shows
  apiKey,              \* import.meta.env.VITE_GEMINI_API_KEY is set
  topic,               \* TopicGenerator state: useState('')
  count,               \* TopicGenerator state: useState(5)
  loading,             \* TopicGenerator state: useState(false)
  generatedQuestions,  \* TopicGenerator state: useState<any[]>([])
  file,                \* DocumentUploader state: useState<File | null>(null)
  extractedText,       \* DocumentUploader state: useState<string>('')
  extractions,         \* the extractTextFromPDF calls in flight, per file
  selections,          \* the file selections made so far
  ops,                 \* the runs of handleGenerate and handleGenerateMCQs
  store                \* the insertions the question store has committed

selVars == <<questions, selectedQuestions, availableQuestions, searchQuery, effectPending>>
normVars == <<responseText, normResult>>
mapVars == <<mcq, mapped>>

topicVars == <<topic, count, loading, generatedQuestions>>
docVars == <<file, extractedText, extractions, selections>>
envVars == <<generator, apiKey>>
genVars == <<envVars, topicVars, docVars, ops, store>>

vars == <<selVars, normVars, mapVars, genVars>>

notSel == <<normVars, mapVars, genVars>>
notNorm == <<selVars, mapVars, genVars>>
notMap == <<selVars, normVars, genVars>>
notGen == <<selVars, normVars, mapVars>>

----------------------------------------------------------------------------
(* Generic helpers *)

Range(s) == {s[i] : i \in 1..Len(s)}

\* Array.prototype.filter: the elements satisfying Test, in order.
SeqFilter(s, Test(_)) == SelectSeq(s, Test)

\* Array.prototype.map
SeqMap(s, F(_)) == [i \in 1..Len(s) |-> F(s[i])]

\* String.prototype.includes on character sequences.
Includes(text, query) ==
  \E i \in 0..(Len(text) - Len(query)) :
     \A j \in 1..Len(query) : text[i + j] = query[j]

\* String.prototype.toLowerCase on the characters the model uses.
LowerChar(c) == IF c = "A" THEN "a" ELSE IF c = "B" THEN "b" ELSE c
ToLowerCase(s) == [i \in 1..Len(s) |-> LowerChar(s[i])]

----------------------------------------------------------------------------
(* JSON texts and values                                                   *)
(*                                                                         *)
(* A text is a sequence of tokens: the structural characters "[", "]" and  *)
(* ",", white space " ", the literal "null", a word of prose "x" (no JSON  *)
(* token), and object literals {...}, each one token named after the       *)
(* question it holds.                                                      *)

NoAnswer == [type |-> "undefined", s |-> "", n |-> 0]
Letter(c) == [type |-> "string", s |-> c, n |-> 0]
Number(k) == [type |-> "number", s |-> "", n |-> k]

ABCD == <<"optA", "optB", "optC", "optD">>

\* The fields of the object each object literal denotes.
ObjTokens == {"qA", "q1", "qNoOptions"}

ObjFields(tok) ==
  CASE tok = "qA" -> [options |-> [defined |-> TRUE, items |-> ABCD],
                      correct_answer |-> Letter("A")]
    [] tok = "q1" -> [options |-> [defined |-> TRUE, items |-> ABCD],
                      correct_answer |-> Number(1)]
    [] OTHER      -> [options |-> [defined |-> FALSE, items |-> <<>>],
                      correct_answer |-> NoAnswer]

\* JSON values.
ArrayVal(items) == [kind |-> "array", items |-> items, tok |-> ""]
ObjectVal(tok) == [kind |-> "object", items |-> <<>>, tok |-> tok]
NullVal == [kind |-> "null", items |-> <<>>, tok |-> ""]
Undefined == [kind |-> "undefined", items |-> <<>>, tok |-> ""]

ParseFail == [ok |-> FALSE, val |-> Undefined, next |-> 0]

\* The first position at or after i that holds no white space.
RECURSIVE SkipWs(_, _)
SkipWs(t, i) ==
  IF i <= Len(t) /\ t[i] = " " THEN SkipWs(t, i + 1) ELSE i

\* JSON's grammar: value ::= object | null | "[" "]" | "[" value ("," value)* "]"
RECURSIVE ParseValue(_, _)
RECURSIVE ParseElements(_, _, _)
ParseValue(t, i0) ==
  LET i == SkipWs(t, i0)
  IN IF i > Len(t) THEN ParseFail
     ELSE IF t[i] \in ObjTokens
          THEN [ok |-> TRUE, val |-> ObjectVal(t[i]), next |-> i + 1]
     ELSE IF t[i] = "null"
          THEN [ok |-> TRUE, val |-> NullVal, next |-> i + 1]
     ELSE IF t[i] = "["
          THEN LET j == SkipWs(t, i + 1)
               IN IF j <= Len(t) /\ t[j] = "]"
                  THEN [ok |-> TRUE, val |-> ArrayVal(<<>>), next |-> j + 1]
                  ELSE ParseElements(t, j, <<>>)
     ELSE ParseFail

ParseElements(t, i, acc) ==
  LET r == ParseValue(t, i)
  IN IF ~r.ok THEN ParseFail
     ELSE LET j == SkipWs(t, r.next)
          IN IF j > Len(t) THEN ParseFail
             ELSE IF t[j] = "]"
                  THEN [ok |-> TRUE, val |-> ArrayVal(Append(acc, r.val)),
                        next |-> j + 1]
             ELSE IF t[j] = ","
                  THEN ParseElements(t, j + 1, Append(acc, r.val))
             ELSE ParseFail

\* JSON.parse: one value, white space around it, nothing else; ok = FALSE is
\* the SyntaxError.
JSONParse(t) ==
  LET r == ParseValue(t, 1)
  IN IF r.ok /\ SkipWs(t, r.next) = Len(t) + 1
     THEN [ok |-> TRUE, val |-> r.val]
     ELSE [ok |-> FALSE, val |-> Undefined]

IsArray(v) == v.kind = "array"

----------------------------------------------------------------------------
(* The response normalizers *)

Positions(t, c) == {i \in 1..Len(t) : t[i] = c}
Min(S) == CHOOSE x \in S : \A y \in S : x <= y
Max(S) == CHOOSE x \in S : \A y \in S : x >= y

\* A non-greedy reading of the same pattern, from the first "[" to the first
\* "]" after it; kept for comparison with the greedy match below.
BracketMatchShortest(t) ==
  LET opens == Positions(t, "[")
      closes == IF opens = {} THEN {}
                ELSE {j \in Positions(t, "]") : j > Min(opens)}
  IN IF closes = {}
     THEN [found |-> FALSE, text |-> <<>>]
     ELSE [found |-> TRUE, text |-> SubSeq(t, Min(opens), Min(closes))]

\* responseText.match(/\[[\s\S]*\]/): from the first "[" to the last "]".
BracketMatch(t) ==
  LET opens == Positions(t, "[")
      closes == IF opens = {} THEN {}
                ELSE {j \in Positions(t, "]") : j > Min(opens)}
  IN IF closes = {}
     THEN [found |-> FALSE, text |-> <<>>]
     ELSE [found |-> TRUE, text |-> SubSeq(t, Min(opens), Max(closes))]

Returned(v) == [threw |-> FALSE, val |-> v]
Threw == [threw |-> TRUE, val |-> Undefined]

\* part_000 lines 43-57: what generateQuestionsFromText returns for a response
\* text, or that it throws 'Failed to generate questions'.
NormalizeTopic(text) ==
  LET direct == JSONParse(text)
  IN IF direct.ok THEN Returned(direct.val)
     ELSE LET jsonMatch == BracketMatch(text)
          IN IF jsonMatch.found
             THEN LET inner == JSONParse(jsonMatch.text)
                  IN IF inner.ok THEN Returned(inner.val) ELSE Threw
             ELSE Threw

\* DocumentUploader.tsx lines 135-150: the questions handleGenerateMCQs goes on
\* with, or that it throws.
NormalizeDoc(generatedContent) ==
  IF generatedContent = <<>> THEN Threw
  ELSE LET parsed == JSONParse(generatedContent)
       IN IF ~parsed.ok THEN Threw
          ELSE IF ~IsArray(parsed.val) \/ Len(parsed.val.items) = 0 THEN Threw
          ELSE Returned(parsed.val)

MaxLen == 5       \* response texts of up to MaxLen tokens

NormTokens == {"[", "]", ",", " ", "x", "qA", "null"}

RECURSIVE TextsUpTo(_)
TextsUpTo(n) ==
  IF n = 0 THEN {<<>>}
  ELSE LET shorter == TextsUpTo(n - 1)
       IN shorter \cup {Append(t, c) : t \in {u \in shorter : Len(u) = n - 1},
                                       c \in NormTokens}

NormPending == [done |-> FALSE, path |-> "", threw |-> FALSE, val |-> Undefined]

NormIdle ==
  /\ responseText = <<>>
  /\ normResult = NormPending

----------------------------------------------------------------------------
(* The Answer-Key Mapper *)

Letters == <<"A", "B", "C", "D", "E", "F">>

\* String.fromCharCode for the codes of the capital letters the model uses.
FromCharCode(code) ==
  IF code - 64 \in 1..Len(Letters) THEN Letters[code - 64] ELSE "?"

\* Array.prototype.findIndex: the first 0-based index whose element and index
\* satisfy Test, or -1.
FindIndex(s, Test(_, _)) ==
  LET hits == {i \in 1..Len(s) : Test(s[i], i - 1)}
  IN IF hits = {} THEN -1 ELSE Min(hits) - 1

\* A reading that looks the answer up among the option strings rather than
\* among the letters; kept for comparison with the lookup below.
AnswerIndexByContent(options, correct_answer) ==
  FindIndex(options, LAMBDA opt, idx :
              correct_answer.type = "string" /\ opt = correct_answer.s)

\* DocumentUploader.tsx lines 157-159.  === is strict: a correct_answer that is
\* no string equals no letter.
AnswerIndex(options, correct_answer) ==
  FindIndex(options, LAMBDA opt, idx :
              correct_answer.type = "string"
              /\ FromCharCode(65 + idx) = correct_answer.s)

MaxOptions == 4   \* options arrays of up to MaxOptions entries

OptionStrings == {"", "A", "C"}

AnswerKeys == {Letter(c) : c \in {"A", "B", "C", "D", "E", "a"}}
                \cup {Number(0), Number(2), NoAnswer}

RECURSIVE OptionsUpTo(_)
OptionsUpTo(n) ==
  IF n = 0 THEN {<<>>}
  ELSE LET shorter == OptionsUpTo(n - 1)
       IN shorter \cup {Append(t, c) : t \in {u \in shorter : Len(u) = n - 1},
                                       c \in OptionStrings}

MapIdle ==
  /\ mcq = [options |-> <<>>, correct_answer |-> NoAnswer]
  /\ mapped = [done |-> FALSE, index |-> 0]

----------------------------------------------------------------------------
(* The generation pipelines: data *)

MaxOps == 2          \* clicks that start a run of a generation handler
MaxSelections == 2   \* file selections

DefaultCount == 5
Counts == {DefaultCount, 3}
Topics == {<<>>, <<" ">>, <<"t">>}

IsSpace(c) == c \in {" ", "\n"}

\* String.prototype.trim
RECURSIVE TrimStart(_)
TrimStart(s) ==
  IF s # <<>> /\ IsSpace(Head(s)) THEN TrimStart(Tail(s)) ELSE s
RECURSIVE TrimEnd(_)
TrimEnd(s) ==
  IF s # <<>> /\ IsSpace(s[Len(s)]) THEN TrimEnd(SubSeq(s, 1, Len(s) - 1)) ELSE s
Trim(s) == TrimEnd(TrimStart(s))

\* The files a teacher can pick.
NoFile == "null"
Files == {"a.pdf", "b.pdf", "big.pdf", "notes.txt", "corrupt.pdf"}

MAX_FILE_SIZE == 2 * 1024 * 1024

FileType(f) == IF f = "notes.txt" THEN "text/plain" ELSE "application/pdf"
FileSize(f) == IF f = "big.pdf" THEN MAX_FILE_SIZE + 1
               ELSE IF f = "b.pdf" THEN MAX_FILE_SIZE ELSE 1000
\* pdf.js can read the file.
FileReadable(f) == f # "corrupt.pdf"
\* The normalized text of each page.
FilePages(f) == IF f = "a.pdf" THEN <<"a">> ELSE <<"b", "b">>

\* DocumentUploader.tsx lines 56-69
RECURSIVE FullText(_)
FullText(pages) ==
  IF pages = <<>> THEN <<>>
  ELSE <<Head(pages), "\n">> \o FullText(Tail(pages))

\* What the completion service can answer.  A request is rejected (no
\* response), or answered with a status and a body; a body holds candidates
\* with a text, or none.
Responses ==
  { <<"[", "qA", ",", "qA", "]">>,
    <<"[", "q1", "]">>,
    <<"x", "[", "q1", "]">>,
    <<"qA">>,
    <<"x">>,
    <<"[", "]">>,
    <<"[", "q1", ",", "qNoOptions", ",", "null", "]">> }

Rejected == [status |-> "reject", candidates |-> FALSE, text |-> <<>>]

ServiceAnswers(keyed) ==
  {Rejected, [status |-> "error", candidates |-> FALSE, text |-> <<>>],
   [status |-> "error", candidates |-> TRUE, text |-> <<"[", "qA", "]">>]}
  \cup IF keyed
       THEN {[status |-> "ok", candidates |-> FALSE, text |-> <<>>]}
            \cup {[status |-> "ok", candidates |-> TRUE, text |-> r] : r \in Responses}
       ELSE {}

NoSnapshot ==
  [generatedQuestions |-> Undefined, topic |-> <<>>, count |-> 0]

OpIdle ==
  [comp |-> "", pc |-> "idle", prompt |-> <<>>, sent |-> FALSE,
   answer |-> "", reqs |-> <<>>, outcome |-> "none",
   stage |-> "", refreshed |-> FALSE, before |-> NoSnapshot]

OpIds == 1..MaxOps

GenIdle ==
  /\ generator = ""
  /\ apiKey = FALSE
  /\ topic = <<>>
  /\ count = DefaultCount
  /\ loading = FALSE
  /\ generatedQuestions = ArrayVal(<<>>)
  /\ file = NoFile
  /\ extractedText = <<>>
  /\ extractions = [f \in Files |-> 0]
  /\ selections = 0
  /\ ops = [o \in OpIds |-> OpIdle]
  /\ store = {}

----------------------------------------------------------------------------
(* QuestionSelection *)

NumQ == 3         \* question ids 1..NumQ exist in the store
MaxMarks == 2     \* marks a teacher types are 1..MaxMarks

QuestionIds == 1..NumQ

\* The text of the stored question with a given id.
QuestionText(id) ==
  IF id = 1 THEN <<"A", "b">> ELSE IF id = 2 THEN <<"b", "a">> ELSE <<"B">>

\* A Question of the pool as the store returns it.
PoolQuestion(id) == [id |-> id, text |-> QuestionText(id), marks |-> 1]

\* The store returns the questions of a subject in id order.
RECURSIVE PoolOf(_)
PoolOf(ids) ==
  IF ids = {} THEN <<>>
  ELSE LET m == CHOOSE x \in ids : \A y \in ids : x <= y
       IN <<PoolQuestion(m)>> \o PoolOf(ids \ {m})

Queries == {<<>>, <<"a">>, <<"B">>}

Ids(s) == {s[i].id : i \in 1..Len(s)}

\* A reading that compares whole question records rather than ids; kept for
\* comparison with the filter below.
AvailableByDeepEquality(qs, sel) ==
  SeqFilter(qs, LAMBDA q : q \notin Range(sel))

\* lines 24-33: the body of the effect.
Available(qs, sel) ==
  LET selectedIds == Ids(sel)
  IN SeqFilter(qs, LAMBDA q : q.id \notin selectedIds)

\* lines 36-38
filteredQuestions ==
  SeqFilter(availableQuestions,
            LAMBDA q : Includes(ToLowerCase(q.text), ToLowerCase(searchQuery)))

SelIdle ==
  /\ questions = <<>>
  /\ selectedQuestions = <<>>
  /\ availableQuestions = <<>>
  /\ searchQuery = <<>>
  /\ effectPending = FALSE

SelInit ==
  /\ questions \in {PoolOf(S) : S \in SUBSET QuestionIds}
  /\ selectedQuestions = <<>>
  /\ availableQuestions = <<>>
  /\ searchQuery = <<>>
  /\ effectPending = TRUE
  /\ NormIdle /\ MapIdle /\ GenIdle

\* The effect runs after the render that saw new props (and after the mount).
RunEffect ==
  /\ effectPending
  /\ availableQuestions' = Available(questions, selectedQuestions)
  /\ effectPending' = FALSE
  /\ UNCHANGED <<questions, selectedQuestions, searchQuery, notSel>>

\* line 130: the button of a rendered available question; the parent appends
\* the copy to the selection.
SelectQuestion ==
  /\ ~effectPending
  /\ \E i \in 1..Len(filteredQuestions) :
       selectedQuestions' = Append(selectedQuestions, filteredQuestions[i])
  /\ effectPending' = TRUE
  /\ UNCHANGED <<questions, availableQuestions, searchQuery, notSel>>

\* line 79: the trash button of a rendered selected question.
RemoveQuestion ==
  /\ ~effectPending
  /\ \E i \in 1..Len(selectedQuestions) :
       LET questionId == selectedQuestions[i].id
       IN selectedQuestions' =
            SeqFilter(selectedQuestions, LAMBDA q : q.id # questionId)
  /\ effectPending' = TRUE
  /\ UNCHANGED <<questions, availableQuestions, searchQuery, notSel>>

\* line 74: the marks input of a rendered selected question.
UpdateMarks ==
  /\ ~effectPending
  /\ \E i \in 1..Len(selectedQuestions), marks \in 1..MaxMarks :
       LET questionId == selectedQuestions[i].id
       IN /\ selectedQuestions[i].marks # marks
          /\ selectedQuestions' =
               SeqMap(selectedQuestions,
                      LAMBDA q : IF q.id = questionId
                                 THEN [q EXCEPT !.marks = marks] ELSE q)
  /\ effectPending' = TRUE
  /\ UNCHANGED <<questions, availableQuestions, searchQuery, notSel>>

\* The parent passes a new pool (questions were added to or deleted from the
\* store).
PoolChange ==
  /\ ~effectPending
  /\ \E S \in SUBSET QuestionIds :
       /\ PoolOf(S) # questions
       /\ questions' = PoolOf(S)
  /\ effectPending' = TRUE
  /\ UNCHANGED <<selectedQuestions, availableQuestions, searchQuery, notSel>>

\* line 100
SetSearchQuery ==
  /\ ~effectPending
  /\ \E s \in Queries : s # searchQuery /\ searchQuery' = s
  /\ UNCHANGED <<questions, selectedQuestions, availableQuestions, effectPending, notSel>>

SelNext ==
  \/ RunEffect
  \/ SelectQuestion
  \/ RemoveQuestion
  \/ UpdateMarks
  \/ PoolChange
  \/ SetSearchQuery

SpecSelection == SelInit /\ [][SelNext]_vars

----------------------------------------------------------------------------
(* The normalizers applied to one response text *)

NormInit ==
  /\ responseText \in TextsUpTo(MaxLen)
  /\ normResult = NormPending
  /\ SelIdle /\ MapIdle /\ GenIdle

\* generateQuestionsFromText receives the text (part_000 line 41).
ApplyNormalizeTopic ==
  /\ ~normResult.done
  /\ LET r == NormalizeTopic(responseText)
     IN normResult' = [done |-> TRUE, path |-> "topic", threw |-> r.threw,
                       val |-> r.val]
  /\ UNCHANGED <<responseText, notNorm>>

\* handleGenerateMCQs receives the text (DocumentUploader.tsx line 135).
ApplyNormalizeDoc ==
  /\ ~normResult.done
  /\ LET r == NormalizeDoc(responseText)
     IN normResult' = [done |-> TRUE, path |-> "doc", threw |-> r.threw,
                       val |-> r.val]
  /\ UNCHANGED <<responseText, notNorm>>

NormNext == ApplyNormalizeTopic \/ ApplyNormalizeDoc

SpecNormalizer == NormInit /\ [][NormNext]_vars

----------------------------------------------------------------------------
(* The Answer-Key Mapper applied to one generated question *)

MapInit ==
  /\ mcq \in [options : OptionsUpTo(MaxOptions), correct_answer : AnswerKeys]
  /\ mapped = [done |-> FALSE, index |-> 0]
  /\ SelIdle /\ NormIdle /\ GenIdle

\* DocumentUploader.tsx lines 157-159, for one question of the response.
ApplyAnswerIndex ==
  /\ ~mapped.done
  /\ mapped' = [done |-> TRUE,
                index |-> AnswerIndex(mcq.options, mcq.correct_answer)]
  /\ UNCHANGED <<mcq, notMap>>

MapNext == ApplyAnswerIndex

SpecMapper == MapInit /\ [][MapNext]_vars

----------------------------------------------------------------------------
(* The generation pipelines: handlers *)

\* What a question of the response is read as: the fields of an object, and
\* undefined fields of anything else that is not null.
ItemFields(item) ==
  IF item.kind = "object" THEN ObjFields(item.tok)
  ELSE [options |-> [defined |-> FALSE, items |-> <<>>], correct_answer |-> NoAnswer]

\* The callback of questions.map throws a TypeError: reading a property of
\* null (both handlers), calling findIndex of undefined (handleGenerateMCQs).
ItemThrows(comp, item) ==
  \/ item.kind = "null"
  \/ comp = "doc" /\ ~ItemFields(item).options.defined

\* The insertion request addQuestion is called with (its correct_answer).
\* TopicGenerator.tsx line 38, DocumentUploader.tsx lines 157-159.
ItemRequest(comp, item) ==
  [status |-> "pending",
   correct_answer |->
     IF comp = "topic" THEN ItemFields(item).correct_answer
     ELSE Number(AnswerIndex(ItemFields(item).options.items,
                             ItemFields(item).correct_answer))]

\* questions.map(q => addQuestion({...})): the requests issued, in order, up
\* to the item whose callback throws.
RECURSIVE MapItems(_, _, _)
MapItems(comp, items, acc) ==
  IF items = <<>> THEN [threw |-> FALSE, reqs |-> acc]
  ELSE IF ItemThrows(comp, Head(items)) THEN [threw |-> TRUE, reqs |-> acc]
  ELSE MapItems(comp, Tail(items), Append(acc, ItemRequest(comp, Head(items))))

\* A reading that waits for every insertion and reports no rejection
\* (Promise.allSettled); kept for comparison with Promise.all below.
PromiseAllSettled(reqs) ==
  IF \E i \in 1..Len(reqs) : reqs[i].status = "pending" THEN "pending"
  ELSE "fulfilled"

\* Promise.all over the insertions: rejected as soon as one has failed,
\* fulfilled once all have committed.
PromiseAll(reqs) ==
  IF \E i \in 1..Len(reqs) : reqs[i].status = "failed" THEN "rejected"
  ELSE IF \A i \in 1..Len(reqs) : reqs[i].status = "committed" THEN "fulfilled"
  ELSE "pending"

\* The catch blocks: the error toast.  (prompt, the text sent, and before,
\* the state the run started in, are kept while the run lasts.)
Failed(op, stage) ==
  [op EXCEPT !.pc = "done", !.outcome = "failed", !.stage = stage,
             !.prompt = <<>>, !.before = NoSnapshot]

\* The success toast and onQuestionsGenerated().
Succeeded(op) ==
  [op EXCEPT !.pc = "done", !.outcome = "success", !.refreshed = TRUE,
             !.prompt = <<>>, !.before = NoSnapshot]

\* TopicGenerator.tsx lines 33-48, DocumentUploader.tsx lines 152-169: from
\* the questions to the await of Promise.all.
Submit(op, questionsVal) ==
  IF ~IsArray(questionsVal) THEN Failed(op, "map")
  ELSE LET m == MapItems(op.comp, questionsVal.items, <<>>)
           withReqs == [op EXCEPT !.reqs = m.reqs]
       IN IF m.threw THEN Failed(withReqs, "map")
          ELSE IF PromiseAll(m.reqs) = "fulfilled" THEN Succeeded(withReqs)
          ELSE [withReqs EXCEPT !.pc = "inserting"]

\* part_000 lines 39-57: the SDK rejects unless the service answered with
\* success; a body without candidates has the empty text.
GenerateQuestionsFromText(answer) ==
  IF answer.status # "ok" THEN Threw ELSE NormalizeTopic(answer.text)

\* TopicGenerator.tsx lines 29-51, once the completion call has settled.
HandleGenerateResume(op, answer) ==
  LET questionsResult == GenerateQuestionsFromText(answer)
      got == [op EXCEPT !.answer = answer.status]
  IN IF questionsResult.threw
     THEN Failed(got, IF answer.status # "ok" THEN "completion" ELSE "normalize")
     ELSE Submit(got, questionsResult.val)

\* A handler without the status test; kept for comparison with the test below.
ResponseOkUnchecked(answer) == TRUE

\* DocumentUploader.tsx line 124
ResponseOk(answer) == answer.status = "ok"

\* DocumentUploader.tsx lines 93-169, once fetch has settled.
HandleGenerateMCQsResume(op, answer) ==
  LET got == [op EXCEPT !.answer = answer.status]
  IN IF answer.status = "reject" THEN Failed(got, "completion")
     ELSE IF ~ResponseOk(answer) THEN Failed(got, "completion")
     ELSE IF ~answer.candidates THEN Failed(got, "candidates")
     ELSE LET questionsResult == NormalizeDoc(answer.text)
          IN IF questionsResult.threw
             THEN Failed(got, "normalize")
             ELSE Submit(got, questionsResult.val)

FreeOps == {o \in OpIds : ops[o].pc = "idle"}
NextOp == Min(FreeOps)

\* A behaviour follows one of the two generator components from its mount:
\* they share no state but the store, which only grows, and the credential.
GenInit ==
  /\ generator \in {"topic", "doc"}
  /\ apiKey \in BOOLEAN
  /\ topic = <<>>
  /\ count = DefaultCount
  /\ loading = FALSE
  /\ generatedQuestions = ArrayVal(<<>>)
  /\ file = NoFile
  /\ extractedText = <<>>
  /\ extractions = [f \in Files |-> 0]
  /\ selections = 0
  /\ ops = [o \in OpIds |-> OpIdle]
  /\ store = {}
  /\ SelIdle /\ NormIdle /\ MapIdle

\* Inputs without the disabled attribute; kept for comparison.
TopicNeverDisabled == FALSE

\* TopicGenerator.tsx lines 70 and 85: disabled={loading} on both inputs
TopicDisabled == loading

\* A button without the disabled attribute, as DocumentUploader.tsx lines
\* 196-201 has it; kept for comparison.
GenerateNeverDisabled == FALSE

\* TopicGenerator.tsx line 91: disabled={loading} on the button
GenerateDisabled == loading

\* TopicGenerator.tsx line 66
SetTopic ==
  /\ generator = "topic"
  /\ ~TopicDisabled
  /\ \E t \in Topics : t # topic /\ topic' = t
  /\ UNCHANGED <<envVars, count, loading, generatedQuestions, docVars, ops, store, notGen>>

\* TopicGenerator.tsx line 83
SetCount ==
  /\ generator = "topic"
  /\ ~TopicDisabled
  /\ \E c \in Counts : c # count /\ count' = c
  /\ UNCHANGED <<envVars, topic, loading, generatedQuestions, docVars, ops, store, notGen>>

\* TopicGenerator.tsx lines 21-29: a click on Generate Questions, up to the
\* await of generateQuestionsFromText (part_000 lines 17-39), which calls the
\* SDK without looking at the credential.  An empty topic returns at line 24.
HandleGenerate ==
  /\ generator = "topic"
  /\ ~GenerateDisabled
  /\ Trim(topic) # <<>>
  /\ FreeOps # {}
  /\ loading' = TRUE
  /\ ops' = [ops EXCEPT ![NextOp] =
       [OpIdle EXCEPT !.comp = "topic", !.pc = "completion",
                      !.prompt = topic, !.sent = TRUE,
                      !.before = [generatedQuestions |-> generatedQuestions,
                                  topic |-> topic, count |-> count]]]
  /\ UNCHANGED <<envVars, topic, count, generatedQuestions, docVars, store, notGen>>

\* The completion call of a run of handleGenerate settles; the handler runs
\* on to the await of Promise.all or to its end (finally: setLoading(false)).
TopicCompletion ==
  \E o \in OpIds, answer \in ServiceAnswers(apiKey) :
    /\ ops[o].comp = "topic" /\ ops[o].pc = "completion"
    /\ LET op == HandleGenerateResume(ops[o], answer)
           questionsResult == GenerateQuestionsFromText(answer)
       IN /\ ops' = [ops EXCEPT ![o] = op]
          /\ generatedQuestions' =
               IF questionsResult.threw THEN generatedQuestions
               ELSE questionsResult.val
          /\ loading' = IF op.pc = "done" THEN FALSE ELSE loading
    /\ UNCHANGED <<envVars, topic, count, docVars, store, notGen>>

\* DocumentUploader.tsx lines 34-48
HandleFileChange ==
  /\ generator = "doc"
  /\ selections < MaxSelections
  /\ selections' = selections + 1
  /\ \E selectedFile \in Files :
       IF FileType(selectedFile) # "application/pdf"
          \/ FileSize(selectedFile) > MAX_FILE_SIZE
       THEN UNCHANGED <<file, extractions>>
       ELSE /\ file' = selectedFile
            /\ extractions' = [extractions EXCEPT ![selectedFile] = @ + 1]
  /\ UNCHANGED <<envVars, topicVars, extractedText, ops, store, notGen>>

\* DocumentUploader.tsx lines 51-78: a call of extractTextFromPDF ends.
ExtractTextFromPDF ==
  /\ \E f \in Files :
       /\ extractions[f] > 0
       /\ extractedText' = IF FileReadable(f) THEN FullText(FilePages(f))
                           ELSE <<>>
       /\ extractions' = [extractions EXCEPT ![f] = @ - 1]
  /\ UNCHANGED <<envVars, topicVars, file, selections, ops, store, notGen>>

\* DocumentUploader.tsx lines 81-122: a click on Generate MCQs (the button is
\* rendered once a file is set), up to the await of fetch.  Without extracted
\* text the handler returns at line 84.
HandleGenerateMCQs ==
  /\ generator = "doc"
  /\ file # NoFile
  /\ extractedText # <<>>
  /\ FreeOps # {}
  /\ LET started == [OpIdle EXCEPT !.comp = "doc", !.prompt = extractedText]
     IN ops' = [ops EXCEPT ![NextOp] =
          IF ~apiKey THEN Failed(started, "config")
          ELSE [started EXCEPT !.pc = "completion", !.sent = TRUE]]
  /\ UNCHANGED <<envVars, topicVars, docVars, store, notGen>>

\* The fetch of a run of handleGenerateMCQs settles; the handler runs on to
\* the await of Promise.all or to its end.
DocCompletion ==
  \E o \in OpIds, answer \in ServiceAnswers(apiKey) :
    /\ ops[o].comp = "doc" /\ ops[o].pc = "completion"
    /\ ops' = [ops EXCEPT ![o] = HandleGenerateMCQsResume(ops[o], answer)]
    /\ UNCHANGED <<envVars, topicVars, docVars, store, notGen>>

\* The handler of an operation awaiting Promise.all resumes when it settles.
Resume(op) ==
  IF op.pc # "inserting" THEN op
  ELSE IF PromiseAll(op.reqs) = "fulfilled" THEN Succeeded(op)
  ELSE IF PromiseAll(op.reqs) = "rejected" THEN Failed(op, "insert")
  ELSE op

\* The store settles one insertion: it commits it or fails it.
AddQuestionSettles ==
  \E o \in OpIds :
    \E i \in 1..Len(ops[o].reqs), result \in {"committed", "failed"} :
      /\ ops[o].reqs[i].status = "pending"
      /\ LET op == Resume([ops[o] EXCEPT !.reqs[i].status = result])
         IN /\ ops' = [ops EXCEPT ![o] = op]
            /\ loading' = IF op.comp = "topic" /\ op.pc = "done" /\ ops[o].pc # "done"
                          THEN FALSE ELSE loading
      /\ store' = IF result = "committed"
                  THEN store \cup {[op |-> o, index |-> i,
                                    correct_answer |-> ops[o].reqs[i].correct_answer]}
                  ELSE store
      /\ UNCHANGED <<envVars, topic, count, generatedQuestions, docVars, notGen>>

Next ==
  \/ SetTopic
  \/ SetCount
  \/ HandleGenerate
  \/ TopicCompletion
  \/ HandleFileChange
  \/ ExtractTextFromPDF
  \/ HandleGenerateMCQs
  \/ DocCompletion
  \/ AddQuestionSettles

Spec == GenInit /\ [][Next]_vars

----------------------------------------------------------------------------
(* Claims *)

\* No id is both selected and available, and every id of the pool is in
\* exactly one of the two.
Partition ==
  /\ Ids(selectedQuestions) \cap Ids(availableQuestions) = {}
  /\ Ids(questions) \subseteq Ids(selectedQuestions) \cup Ids(availableQuestions)

\* C1 (as claimed): the render that follows a select, a remove or a change of
\* the pool shows a partition of the pool, the effect having run or not.
C1_PartitionAfterEveryTransition ==
  [][(SelectQuestion \/ RemoveQuestion \/ PoolChange) => Partition']_vars

\* C1 (amended): once the effect has run for the current props, selected and
\* available partition the pool by id.
C1_PartitionOnceEffectRan == ~effectPending => Partition

C1_Witness ==
  /\ ~effectPending
  /\ Len(selectedQuestions) >= 1
  /\ Len(availableQuestions) >= 1
  /\ \E i \in 1..Len(selectedQuestions) : selectedQuestions[i].marks > 1
  /\ Ids(selectedQuestions) \cup Ids(availableQuestions) = Ids(questions)

\* C4: a letter A..D with exactly 4 options maps to its position, whatever
\* the option strings are.
PositionOf(c) == CASE c = "A" -> 0 [] c = "B" -> 1 [] c = "C" -> 2 [] OTHER -> 3

\* C4: for a letter A..D and exactly 4 options, the document path's index is
\* the position of the letter, independent of the option strings.
C4_LetterMapsToPosition ==
  (/\ mapped.done
   /\ mcq.correct_answer.type = "string"
   /\ mcq.correct_answer.s \in {"A", "B", "C", "D"}
   /\ Len(mcq.options) = 4)
  => mapped.index = PositionOf(mcq.correct_answer.s)

\* A duplicate option string that also spells another letter: "C" is the
\* answer and options[0] = options[2] = "C".
C4_Witness ==
  /\ mapped.done
  /\ mcq.correct_answer = Letter("C")
  /\ mcq.options = <<"C", "", "C", "A">>
  /\ mapped.index = 2

\* The array a text denotes when SubSeq(text, i, j) is taken as the wrapped
\* array and the rest as prose.
WrapsArrayAt(t, i, j) ==
  /\ 1 <= i /\ i < j /\ j <= Len(t)
  /\ t[i] = "[" /\ t[j] = "]"
  /\ ~JSONParse(t).ok
  /\ JSONParse(SubSeq(t, i, j)).ok

\* C5 (as claimed): whatever the prose around a valid array, the topic
\* normalizer returns the array.
C5_FallbackRecoversWrappedArray ==
  (normResult.done /\ normResult.path = "topic")
  => \A i, j \in 1..Len(responseText) :
       WrapsArrayAt(responseText, i, j)
       => /\ ~normResult.threw
          /\ normResult.val = JSONParse(SubSeq(responseText, i, j)).val

\* C5 (amended): provided the prose before the array holds no "[" and the
\* prose after it no "]", the topic normalizer returns the array.
C5_FallbackRecoversWhenProseHasNoBrackets ==
  (normResult.done /\ normResult.path = "topic")
  => \A i, j \in 1..Len(responseText) :
       (/\ WrapsArrayAt(responseText, i, j)
        /\ \A k \in 1..(i - 1) : responseText[k] # "["
        /\ \A k \in (j + 1)..Len(responseText) : responseText[k] # "]")
       => /\ ~normResult.threw
          /\ normResult.val = JSONParse(SubSeq(responseText, i, j)).val

\* Prose on both sides of the array: direct parsing fails, the fallback runs.
C5_Witness ==
  /\ normResult.done /\ normResult.path = "topic"
  /\ responseText = <<"x", "[", "qA", "]", "x">>
  /\ normResult.val = ArrayVal(<<ObjectVal("qA")>>)

\* C6: neither normalizer returns a value that is no array.
C6_NormalizerReturnsArray ==
  (normResult.done /\ ~normResult.threw) => IsArray(normResult.val)

\* C2: an operation reports success (toast and refresh callback) only with
\* every insertion committed; with an insertion failed it reports failure and
\* calls no refresh; committed insertions are in the store and stay there.
FanOutReported ==
  \A o \in OpIds :
    LET op == ops[o]
    IN /\ op.outcome = "success"
            => op.refreshed /\ \A i \in 1..Len(op.reqs) : op.reqs[i].status = "committed"
       /\ (\E i \in 1..Len(op.reqs) : op.reqs[i].status = "failed")
            => op.outcome = "failed"
       /\ op.outcome # "success" => ~op.refreshed
       /\ \A i \in 1..Len(op.reqs) :
            op.reqs[i].status = "committed"
            => [op |-> o, index |-> i, correct_answer |-> op.reqs[i].correct_answer]
                 \in store

\* C2: a generation is reported successful only if every insertion committed;
\* after a reported failure the committed insertions stay in the store, and
\* no step ever removes a stored question.
C2_SuccessOnlyIfAllInserted ==
  []FanOutReported /\ [][store \subseteq store']_vars

\* Question 1 committed, question 2 failed: failure reported, question 1 stays.
C2_Witness ==
  \E o \in OpIds :
    /\ ops[o].outcome = "failed" /\ ops[o].stage = "insert"
    /\ Len(ops[o].reqs) = 2
    /\ ops[o].reqs[1].status = "committed"
    /\ ops[o].reqs[2].status = "failed"
    /\ \E r \in store : r.op = o /\ r.index = 1

\* C3: a completion call that was rejected or answered with an error status
\* ends the operation in failure with no insertion request issued.
C3_NoInsertionAfterServiceFailure ==
  \A o \in OpIds :
    ops[o].answer \in {"reject", "error"}
    => /\ ops[o].outcome = "failed"
       /\ ops[o].reqs = <<>>
       /\ \A r \in store : r.op # o

\* The document path got an error status, the topic path would be the same.
C3_Witness ==
  \E o \in OpIds :
    /\ ops[o].answer = "error"
    /\ ops[o].outcome = "failed"
    /\ ops[o].sent

\* C7: without the credential every generation fails with the configuration
\* error: no request is sent to the completion service, nothing is inserted.
C7_NoRequestWithoutCredential ==
  ~apiKey
  => \A o \in OpIds :
       /\ ~ops[o].sent
       /\ ops[o].reqs = <<>>
       /\ ops[o].pc # "idle" => ops[o].outcome = "failed" /\ ops[o].stage = "config"

\* C8: every insertion request carries an integer correct_answer in 0..3.
C8_AnswerKeyInRange ==
  \A o \in OpIds : \A i \in 1..Len(ops[o].reqs) :
    /\ ops[o].reqs[i].correct_answer.type = "number"
    /\ ops[o].reqs[i].correct_answer.n \in 0..3

\* The runs of a component's handler that have not finished.
Outstanding(comp) ==
  {o \in OpIds : ops[o].comp = comp /\ ops[o].pc \in {"completion", "inserting"}}

\* C9 (as claimed): neither component has two generations outstanding.
C9_OneOutstandingPerComponent ==
  /\ Cardinality(Outstanding("topic")) <= 1
  /\ Cardinality(Outstanding("doc")) <= 1

\* C9 (amended): TopicGenerator has at most one generation outstanding.
C9_OneOutstandingTopicGeneration ==
  Cardinality(Outstanding("topic")) <= 1

\* A second generation, started after the first one finished.
C9_Witness ==
  \E o1, o2 \in OpIds :
    /\ ops[o1].comp = "topic" /\ ops[o1].pc = "done"
    /\ ops[o2].comp = "topic" /\ ops[o2].pc = "inserting"
    /\ loading

\* A run of a handler ends in failure in this step.
EndsInFailure(o) == ops[o].outcome = "none" /\ ops'[o].outcome = "failed"

\* A run of handleGenerateMCQs takes a step.
DocRunSteps == \E o \in OpIds : ops'[o] # ops[o] /\ ops'[o].comp = "doc"

\* C10 (as claimed): a generation that ends in failure in the completion
\* call, the normalization or an insertion leaves topic, count and
\* generatedQuestions as they were when it started and loading false;
\* handleGenerateMCQs writes neither file nor extractedText.
C10_FailureLeavesStateAsBefore ==
  [][/\ \A o \in OpIds :
          (/\ EndsInFailure(o) /\ ops'[o].comp = "topic"
           /\ ops'[o].stage \in {"completion", "normalize", "insert"})
          => /\ topic' = ops[o].before.topic
             /\ count' = ops[o].before.count
             /\ generatedQuestions' = ops[o].before.generatedQuestions
             /\ ~loading'
     /\ DocRunSteps => file' = file /\ extractedText' = extractedText]_vars

\* C10 (amended): whatever the stage of the failure, topic and count are as
\* they were, loading is false, and handleGenerateMCQs writes neither file nor
\* extractedText; generatedQuestions is as it was when the completion call or
\* the normalization failed, and may be the new list when the failure came
\* after generateQuestionsFromText returned.
C10_FailureLeavesInputsAsBefore ==
  [][/\ \A o \in OpIds :
          (EndsInFailure(o) /\ ops'[o].comp = "topic")
          => /\ topic' = ops[o].before.topic
             /\ count' = ops[o].before.count
             /\ ops'[o].stage \in {"completion", "normalize"}
                  => generatedQuestions' = ops[o].before.generatedQuestions
             /\ ~loading'
     /\ DocRunSteps => file' = file /\ extractedText' = extractedText]_vars

\* One generation failed in the normalization after another had shown its
\* questions and failed in an insertion.
C10_Witness ==
  \E o1, o2 \in OpIds :
    /\ ops[o1].comp = "topic" /\ ops[o1].outcome = "failed"
    /\ ops[o1].stage = "insert"
    /\ ops[o2].comp = "topic" /\ ops[o2].outcome = "failed"
    /\ ops[o2].stage = "normalize"
    /\ o1 < o2
    /\ generatedQuestions # ArrayVal(<<>>)
    /\ ~loading

\* handleFileChange rejects the file at line 39 or at line 43.
RejectedFile(f) ==
  FileType(f) # "application/pdf" \/ FileSize(f) > MAX_FILE_SIZE

\* What extractTextFromPDF leaves in extractedText when it has run on f alone.
TextExtractedFrom(f) ==
  IF FileReadable(f) THEN FullText(FilePages(f)) ELSE <<>>

\* A run of handleGenerateMCQs sends its prompt in this step.
SendsPrompt(o) ==
  /\ ops[o].pc = "idle"
  /\ ops'[o].comp = "doc" /\ ops'[o].pc = "completion" /\ ops'[o].sent

\* The text in state is empty or was extracted from the selected file.
TextIsOfSelectedFile ==
  extractedText = <<>>
  \/ (file # NoFile /\ extractedText = TextExtractedFrom(file))

\* The part of C11 about rejected files: a rejected file is never the selected
\* file and has no extraction running, and a selection that leaves file and
\* the extractions as they were leaves extractedText as it was.
C11_RejectedFileChangesNothing ==
  /\ [](\A f \in Files : RejectedFile(f) => file # f /\ extractions[f] = 0)
  /\ [][(selections' # selections /\ extractions' = extractions)
        => file' = file /\ extractedText' = extractedText]_vars

\* The parenthesis of C11 taken alone: the text of an earlier file is never
\* left in state alongside a later selected file.
C11_TextInStateIsOfSelectedFile == []TextIsOfSelectedFile

\* C11: whenever handleGenerateMCQs sends a prompt, the embedded text is the
\* one extracted from the file selected at that moment, whatever the
\* selections and the order in which the extractions end; and a rejected file
\* changes neither file nor extractedText and starts no extraction.
C11_PromptTextIsOfSelectedFile ==
  /\ [][\A o \in OpIds :
          SendsPrompt(o) => ops'[o].prompt = TextExtractedFrom(file)]_vars
  /\ C11_RejectedFileChangesNothing

====
